---- MODULE Spec2Model ----
(***************************************************************************)
(* golumn: the migration driver (Migrator.Up / Migrator.Down) running      *)
(* against the sqlite3 version store.  One action per store call or        *)
(* migration action of an invocation, together with the driver code that   *)
(* runs up to the next call.                                               *)
(***************************************************************************)
EXTENDS Integers, Sequences, FiniteSets, TLC

\* ---------------------------------------------------------------- bounds
MaxVer == 2
MaxLen == 3
ConcLen == 2

\* Driver invocations sharing one store: Spec runs the calls of "a" one after
\* the other, ConcSpec runs "a" and "b" concurrently.
Procs == {"a", "b"}
SeqProcs == {"a"}

VersionDomain == -1 .. MaxVer
StoreVersions == 0 .. MaxVer
Targets == -1 .. MaxVer + 1
SourceLists == UNION {[1 .. n -> VersionDomain] : n \in 0 .. MaxLen}

\* ---------------------------------------------------------------- helpers
MaxTakesLeast(S) == CHOOSE x \in S : \A y \in S : x <= y

Max(S) == CHOOSE x \in S : \A y \in S : y <= x

Range(s) == {s[i] : i \in 1 .. Len(s)}

\* ---------------------------------------------------------------- errors
\* An error value is a sequence of chains (errors.Join keeps every non-nil
\* operand); a chain is the sequence of messages fmt.Errorf("...: %w") builds
\* around a cause.  The nil error is the empty sequence.
NilErr == <<>>

NewErr(cause) == <<(<<cause>>)>>

WrapDropsCause(msg, e) == <<(<<msg>>)>>

Wrap(msg, e) == <<(<<msg>> \o e[1])>>

JoinDropsRelease(e1, e2) == e1

Join(e1, e2) == e1 \o e2

ErrorsIsNever(e, target) == FALSE

ErrorsIs(e, target) == \E i \in 1 .. Len(e) : target \in Range(e[i])

\* ---------------------------------------------------------------- store
\* Sqlite3Store: schema_lock holds at most the row id = 1 (locked), and
\* schema_migrations holds the applied versions (version_id UNIQUE).
StoreLockNotAtomic(lk) == [err |-> "nil", locked |-> TRUE]

StoreLockDropsOnConflict(lk) ==
    [err |-> IF lk THEN "ErrLocked" ELSE "nil", locked |-> ~lk]

StoreLockToggles(lk) == [err |-> "nil", locked |-> ~lk]

StoreLock(lk) ==
    IF lk THEN [err |-> "ErrLocked", locked |-> TRUE]
          ELSE [err |-> "nil", locked |-> TRUE]

StoreReleaseStrict(lk) ==
    [err |-> IF lk THEN "nil" ELSE "not locked", locked |-> FALSE]

StoreRelease(lk) == [err |-> "nil", locked |-> FALSE]

StoreVersionOldest(vs) ==
    IF vs = {} THEN [v |-> 0, err |-> "ErrInitialVersion"]
               ELSE [v |-> CHOOSE x \in vs : \A y \in vs : x <= y, err |-> "nil"]

StoreVersionNoSentinel(vs) ==
    IF vs = {} THEN [v |-> 0, err |-> "nil"]
               ELSE [v |-> Max(vs), err |-> "nil"]

StoreVersionMinusOne(vs) ==
    IF vs = {} THEN [v |-> -1, err |-> "ErrInitialVersion"]
               ELSE [v |-> Max(vs), err |-> "nil"]

StoreVersionNextFree(vs) ==
    IF vs = {} THEN [v |-> 0, err |-> "ErrInitialVersion"]
               ELSE [v |-> Max(vs) + 1, err |-> "nil"]

StoreVersion(vs) ==
    IF vs = {} THEN [v |-> 0, err |-> "ErrInitialVersion"]
               ELSE [v |-> Max(vs), err |-> "nil"]

StoreInsertDropped(vs, v) == [err |-> "nil", versions |-> vs]

StoreInsertUpserts(vs, v) == [err |-> "nil", versions |-> vs \cup {v}]

StoreInsert(vs, v) ==
    IF v \in vs THEN [err |-> "constraint", versions |-> vs]
                ELSE [err |-> "nil", versions |-> vs \cup {v}]

StoreRemoveNothing(vs, v) == [err |-> "nil", versions |-> vs]

StoreRemoveFrom(vs, v) == [err |-> "nil", versions |-> {x \in vs : x < v}]

StoreRemoveLowest(vs, v) ==
    [err |-> "nil", versions |-> vs \ {x \in vs : \A y \in vs : x <= y}]

StoreRemove(vs, v) == [err |-> "nil", versions |-> vs \ {v}]

\* An insert or remove of v whose statement failed: nothing is written.
StoreFaultAfterWrite(vs, v) ==
    [err |-> "fault", versions |-> IF v \in vs THEN vs \ {v} ELSE vs \cup {v}]

StoreFault(vs, v) == [err |-> "fault", versions |-> vs]

\* The database under the store: which tables exist, and the context a call
\* is made with.  A statement run with a cancelled context or against a
\* missing table fails and changes nothing.
Tables == {"schema_lock", "schema_migrations"}
Contexts == {"live", "cancelled"}

ExecErrIgnoresContext(ctx, tabs, table) ==
    IF table \notin tabs THEN "no such table" ELSE "nil"

ExecErr(ctx, tabs, table) ==
    IF ctx = "cancelled" THEN "context canceled"
    ELSE IF table \notin tabs THEN "no such table"
    ELSE "nil"

Sqlite3Lock(ctx, tabs, lk) ==
    LET e == ExecErr(ctx, tabs, "schema_lock")
    IN  IF e # "nil" THEN [err |-> e, locked |-> lk] ELSE StoreLock(lk)

Sqlite3ReleaseIgnoresContext(ctx, tabs, lk) == StoreRelease(lk)

Sqlite3Release(ctx, tabs, lk) ==
    LET e == ExecErr(ctx, tabs, "schema_lock")
    IN  IF e # "nil" THEN [err |-> e, locked |-> lk] ELSE StoreRelease(lk)

Sqlite3Version(ctx, tabs, vs) ==
    LET e == ExecErr(ctx, tabs, "schema_migrations")
    IN  IF e # "nil" THEN [v |-> 0, err |-> e] ELSE StoreVersion(vs)

Sqlite3Insert(ctx, tabs, vs, v) ==
    LET e == ExecErr(ctx, tabs, "schema_migrations")
    IN  IF e # "nil" THEN [err |-> e, versions |-> vs] ELSE StoreInsert(vs, v)

Sqlite3Remove(ctx, tabs, vs, v) ==
    LET e == ExecErr(ctx, tabs, "schema_migrations")
    IN  IF e # "nil" THEN [err |-> e, versions |-> vs] ELSE StoreRemove(vs, v)

\* tx.Rollback: ErrTxDone once the transaction was committed.
TxRollback(committed) == IF committed THEN NewErr("ErrTxDone") ELSE NilErr

\* withTx around a callback that returned fnErr: BeginTx, the callback,
\* Commit, and the deferred err = errors.Join(err, tx.Rollback()).
withTx(ctx, fnErr) ==
    IF ctx = "cancelled" THEN NewErr("context canceled")
    ELSE IF fnErr # NilErr THEN Join(fnErr, TxRollback(FALSE))
    ELSE Join(NilErr, TxRollback(TRUE))

\* Sqlite3Store.Init: both CREATE TABLE IF NOT EXISTS statements run on the
\* database handle itself, so a table created before a failure stays.
InitFaults == {"none", "first", "second"}

Sqlite3Init(ctx, tabs, fault) ==
    LET began == ctx # "cancelled"
        fnErr == IF fault = "none" THEN NilErr ELSE NewErr("fault")
        created == IF ~began \/ fault = "first" THEN tabs
                   ELSE IF fault = "second" THEN tabs \cup {"schema_lock"}
                   ELSE tabs \cup Tables
    IN  [err |-> withTx(ctx, fnErr), tables |-> created]

\* A store result as an error value.
ToErr(e) == IF e = "nil" THEN NilErr ELSE NewErr(e)

\* ---------------------------------------------------------------- unit
\* A migration unit: its version and its two actions.  An action is absent,
\* or a function of the context and database handle it is given.
Funcs == {"absent", "ok", "fails", "honoursCtx"}
DBs == {"db", "nil"}
Units == [Version : VersionDomain, UpFunc : Funcs, DownFunc : Funcs]

Apply(f, ctx, db) ==
    IF f = "ok" THEN NilErr
    ELSE IF f = "fails" THEN NewErr("migration failed")
    ELSE IF ctx = "cancelled" THEN NewErr("context canceled")
    ELSE IF db = "nil" THEN NewErr("nil database") ELSE NilErr

Missing(v, what) == NewErr("migration " \o ToString(v) \o ": missing " \o what \o " func")

MigrationUpSwallows(m, ctx, db) ==
    [err |-> NilErr,
     invoked |-> IF m.UpFunc = "absent" THEN <<>> ELSE <<(<<m.UpFunc, ctx, db>>)>>]

MigrationUp(m, ctx, db) ==
    IF m.UpFunc = "absent"
    THEN [err |-> Missing(m.Version, "up"), invoked |-> <<>>]
    ELSE [err |-> Apply(m.UpFunc, ctx, db), invoked |-> <<(<<m.UpFunc, ctx, db>>)>>]

MigrationDownRunsNothing(m, ctx, db) == [err |-> NilErr, invoked |-> <<>>]

MigrationDown(m, ctx, db) ==
    IF m.DownFunc = "absent"
    THEN [err |-> Missing(m.Version, "down"), invoked |-> <<>>]
    ELSE [err |-> Apply(m.DownFunc, ctx, db), invoked |-> <<(<<m.DownFunc, ctx, db>>)>>]

\* ---------------------------------------------------------------- driver
\* Migrator.check: the first violation in list order, "nil" when there is none.
RECURSIVE checkFrom(_, _, _, _)
checkFrom(src, i, prev, seen) ==
    IF i > Len(src) THEN "nil"
    ELSE IF src[i] < 0 THEN "negative"
    ELSE IF src[i] < prev THEN "order"
    ELSE IF src[i] \in seen THEN "duplicate"
    ELSE checkFrom(src, i + 1, src[i], seen \cup {src[i]})

checkNoDuplicate(src) ==
    IF \E i \in 1 .. Len(src) : src[i] < 0 THEN "negative"
    ELSE IF \E i \in 2 .. Len(src) : src[i] < src[i - 1] THEN "order"
    ELSE "nil"

checkWholeList(src) ==
    IF \E i \in 1 .. Len(src) : src[i] < 0 THEN "negative"
    ELSE IF \E i \in 2 .. Len(src) : src[i] < src[i - 1] THEN "order"
    ELSE IF \E i, j \in 1 .. Len(src) : i # j /\ src[i] = src[j] THEN "duplicate"
    ELSE "nil"

check(src) == checkFrom(src, 1, -1, {})

migrationCmpFunc(s, t) == IF s < t THEN -1 ELSE IF s > t THEN 1 ELSE 0

\* slices.BinarySearchFunc(m.Sources, t, migrationCmpFunc)
RECURSIVE bsearch(_, _, _, _)
bsearch(src, t, i, j) ==
    IF i < j
    THEN LET h == (i + j) \div 2
         IN  IF migrationCmpFunc(src[h + 1], t) < 0
             THEN bsearch(src, t, h + 1, j)
             ELSE bsearch(src, t, i, h)
    ELSE i

BinarySearchFuncNearest(src, t) ==
    LET i == bsearch(src, t, 0, Len(src))
    IN  [idx |-> i + 1, ok |-> i < Len(src)]

BinarySearchFunc(src, t) ==
    LET i == bsearch(src, t, 0, Len(src))
    IN  [idx |-> i + 1,
         ok |-> i < Len(src) /\ migrationCmpFunc(src[i + 1], t) = 0]

\* The filter of Up's two loops over m.Sources.
InPlanInclusive(v, remote, target) == v >= remote /\ v <= target

InPlan(v, remote, target) == v > remote /\ v <= target

ToApply(src, remote, target) ==
    SelectSeq(src, LAMBDA v : InPlan(v, remote, target))

\* Index of the first unit at or after position i that the loop acts on,
\* Len(src) + 1 when the loop runs off the end.
NextIdxSkipsFilter(src, i, remote, target) == i

RECURSIVE NextIdx(_, _, _, _)
NextIdx(src, i, remote, target) ==
    IF i > Len(src) THEN i
    ELSE IF InPlan(src[i], remote, target) THEN i
    ELSE NextIdx(src, i + 1, remote, target)

\* Down's target-existence guard: no unit has the target's version and the
\* target is not the revert-everything sentinel.
TargetGuardSkipped(src, t) == FALSE

TargetMissing(src, t) == ~BinarySearchFunc(src, t).ok /\ t # -1

\* The break condition of Down's revert loop.
AtTargetReversed(remote, target) == remote >= target

AtTargetOffByOne(remote, target) == remote <= target + 1

AtTargetStrict(remote, target) == remote < target

AtTarget(remote, target) == remote <= target

\* shouldRelease as declared once the lock is taken.
InitialShouldReleaseGated(holdLockOnFailure) == ~holdLockOnFailure

InitialShouldRelease(holdLockOnFailure) == TRUE

\* shouldRelease after the failure-policy gate.
GateIgnored(holdLockOnFailure) == TRUE

GateInverted(holdLockOnFailure) == holdLockOnFailure

Gate(holdLockOnFailure) == IF holdLockOnFailure THEN FALSE ELSE TRUE

Event(k, v, r) == [k |-> k, v |-> v, r |-> r]


\* ---------------------------------------------------------------- state
VARIABLES
    Sources,        \* Migrator.Sources: the versions of the units, in list order
    versions,       \* store: applied versions (schema_migrations)
    locked,         \* store: the lock row exists (schema_lock)
    pc,             \* per invocation: the call it is about to make
    op,             \* "Up" or "Down"
    to,             \* the target argument
    hold,           \* Migrator.HoldLockOnFailure
    shouldRelease,  \* the flag read by the deferred release
    remoteVersion,  \* the driver's local remoteVersion
    idx,            \* position in Sources of the unit being applied / reverted
    err,            \* the named result err
    held,           \* history: this invocation acquired the lock and has not released it
    trace,          \* history: store calls and migration actions of this invocation
    prior,          \* history: outcome of the invocation this one repeats, store as it left it
    base,           \* history: the applied versions when this invocation took the lock
    tables,         \* database: the tables that exist
    calls,          \* history: the last two direct calls of store / unit operations
    token,          \* per invocation: the cancellation token (ctx) it was called with
    absent          \* the <<version, "up" / "down">> actions that units lack

vars == <<Sources, versions, locked, pc, op, to, hold, shouldRelease,
          remoteVersion, idx, err, held, trace, prior, base, tables, calls,
          token, absent>>

store == <<versions, locked>>
args == <<op, to, hold>>
api == <<tables, calls>>

NoPrior == [ran |-> FALSE, ok |-> FALSE, versions |-> {}, at |-> Event("none", -1, "nil")]

\* The insert or remove a trace failed at, if it failed at one.
FailedStep(t) ==
    LET c == SelectSeq(t, LAMBDA e : e.k # "release")
    IN  IF c # <<>> /\ c[Len(c)].k \in {"insert", "remove"} /\ c[Len(c)].r # "nil"
        THEN c[Len(c)]
        ELSE Event("none", -1, "nil")

Log(p, k, v, r) == [trace EXCEPT ![p] = Append(@, Event(k, v, r))]

Others(p) == Procs \ {p}

\* Invocation p is about to make call l.  A call that has returned ("done")
\* is handed back to its caller before any other invocation moves on, so
\* that "done" shows the store as it was on return.
At(p, l) == pc[p] = l /\ \A q \in Others(p) : pc[q] # "done"

Init ==
    /\ Sources \in SourceLists
    /\ versions \in SUBSET StoreVersions
    /\ locked = FALSE
    /\ pc = [p \in Procs |-> "idle"]
    /\ op = [p \in Procs |-> "Up"]
    /\ to = [p \in Procs |-> -1]
    /\ hold = [p \in Procs |-> FALSE]
    /\ shouldRelease = [p \in Procs |-> TRUE]
    /\ remoteVersion = [p \in Procs |-> -1]
    /\ idx = [p \in Procs |-> 1]
    /\ err = [p \in Procs |-> NilErr]
    /\ held = [p \in Procs |-> FALSE]
    /\ trace = [p \in Procs |-> <<>>]
    /\ prior = [p \in Procs |-> NoPrior]
    /\ base = [p \in Procs |-> {}]
    /\ tables = Tables
    /\ calls = <<>>
    /\ token = [p \in Procs |-> "live"]
    /\ absent = {}

EnterSkipsInit(p, o, t, h) ==
    LET c == check(Sources)
    IN  /\ op' = [op EXCEPT ![p] = o]
        /\ to' = [to EXCEPT ![p] = t]
        /\ hold' = [hold EXCEPT ![p] = h]
        /\ shouldRelease' = [shouldRelease EXCEPT ![p] = TRUE]
        /\ remoteVersion' = [remoteVersion EXCEPT ![p] = -1]
        /\ idx' = [idx EXCEPT ![p] = 1]
        /\ held' = [held EXCEPT ![p] = FALSE]
        /\ trace' = [trace EXCEPT ![p] = <<>>]
        /\ base' = [base EXCEPT ![p] = {}]
        /\ IF c # "nil"
           THEN /\ err' = [err EXCEPT ![p] = Wrap("invalid sources", NewErr(c))]
                /\ pc' = [pc EXCEPT ![p] = "done"]
           ELSE IF o = "Down" /\ TargetMissing(Sources, t)
           THEN /\ err' = [err EXCEPT ![p] = NewErr("missing target version migration")]
                /\ pc' = [pc EXCEPT ![p] = "done"]
           ELSE /\ err' = [err EXCEPT ![p] = NilErr]
                /\ pc' = [pc EXCEPT ![p] = "lock"]
        /\ UNCHANGED <<Sources, store>>

\* Entry of Up / Down up to the first store call: check(), and for Down the
\* target-existence guard.  No deferred release is registered yet.
Enter(p, o, t, h) ==
    LET c == check(Sources)
    IN  /\ op' = [op EXCEPT ![p] = o]
        /\ to' = [to EXCEPT ![p] = t]
        /\ hold' = [hold EXCEPT ![p] = h]
        /\ shouldRelease' = [shouldRelease EXCEPT ![p] = TRUE]
        /\ remoteVersion' = [remoteVersion EXCEPT ![p] = -1]
        /\ idx' = [idx EXCEPT ![p] = 1]
        /\ held' = [held EXCEPT ![p] = FALSE]
        /\ trace' = [trace EXCEPT ![p] = <<>>]
        /\ base' = [base EXCEPT ![p] = {}]
        /\ IF c # "nil"
           THEN /\ err' = [err EXCEPT ![p] = Wrap("invalid sources", NewErr(c))]
                /\ pc' = [pc EXCEPT ![p] = "done"]
           ELSE IF o = "Down" /\ TargetMissing(Sources, t)
           THEN /\ err' = [err EXCEPT ![p] = NewErr("missing target version migration")]
                /\ pc' = [pc EXCEPT ![p] = "done"]
           ELSE /\ err' = [err EXCEPT ![p] = NilErr]
                /\ pc' = [pc EXCEPT ![p] = "init"]
        /\ UNCHANGED <<Sources, store>>

Start(p) ==
    /\ At(p, "idle")
    /\ \E o \in {"Up", "Down"}, t \in Targets, h \in BOOLEAN : Enter(p, o, t, h)
    /\ prior' = [q \in Procs |-> NoPrior]
    /\ UNCHANGED <<api, token, absent>>

\* The same call made again right after it returned, nothing else running.
Again(p) ==
    /\ pc[p] = "done"
    /\ \A q \in Others(p) : pc[q] = "idle"
    /\ ~prior[p].ran
    /\ Enter(p, op[p], to[p], hold[p])
    /\ prior' = [prior EXCEPT ![p] = [ran |-> TRUE, ok |-> err[p] = NilErr,
                                      versions |-> versions, at |-> FailedStep(trace[p])]]
    /\ token' = [token EXCEPT ![p] = "live"]
    /\ UNCHANGED <<api, absent>>

\* A failed call returns through the deferred release.
Fail(p, e) ==
    /\ err' = [err EXCEPT ![p] = e]
    /\ pc' = [pc EXCEPT ![p] = "defer"]

StoreInit(p) ==
    /\ At(p, "init")
    /\ \E fault \in BOOLEAN :
        IF fault \/ token[p] = "cancelled"
        THEN /\ err' = [err EXCEPT ![p] = Wrap("failed to init version store", NewErr("fault"))]
             /\ pc' = [pc EXCEPT ![p] = "done"]
             /\ trace' = Log(p, "init", -1, "fault")
        ELSE /\ pc' = [pc EXCEPT ![p] = "lock"]
             /\ trace' = Log(p, "init", -1, "nil")
             /\ UNCHANGED err
    /\ UNCHANGED <<Sources, store, args, shouldRelease, remoteVersion, idx, held, prior, base>>
    /\ UNCHANGED <<api, token, absent>>

Lock(p) ==
    /\ At(p, "lock")
    /\ \E fault \in BOOLEAN :
        LET r == IF fault THEN [err |-> "fault", locked |-> locked] ELSE Sqlite3Lock(token[p], tables, locked)
        IN  /\ locked' = r.locked
            /\ trace' = Log(p, "lock", -1, r.err)
            /\ IF r.err # "nil"
               THEN /\ err' = [err EXCEPT ![p] =
                                  Wrap("failed to get version store lock", NewErr(r.err))]
                    /\ pc' = [pc EXCEPT ![p] = "done"]
                    /\ UNCHANGED <<held, base>>
               ELSE /\ pc' = [pc EXCEPT ![p] = "version"]
                    /\ held' = [held EXCEPT ![p] = TRUE]
                    /\ base' = [base EXCEPT ![p] = versions]
                    /\ UNCHANGED err
    /\ shouldRelease' = [shouldRelease EXCEPT ![p] = InitialShouldRelease(hold[p])]
    /\ UNCHANGED <<Sources, versions, args, remoteVersion, idx, prior>>
    /\ UNCHANGED <<api, token, absent>>

\* The unit with version v as the driver holds it: an action it lacks is
\* absent, the one it has succeeds, fails, or follows the token.
UnitsAt(v) ==
    {m \in Units :
        /\ m.Version = v
        /\ m.UpFunc = "absent" <=> <<v, "up">> \in absent
        /\ m.DownFunc = "absent" <=> <<v, "down">> \in absent}

\* The text of an error, "nil" for none.
Message(e) == IF e = NilErr THEN "nil" ELSE e[1][1]

\* ---- Up
\* Leaves the apply loop at position i: the next planned unit, or the end of
\* the loop (shouldRelease = true; return nil).
UpLoop(p, i, remote) ==
    LET n == NextIdx(Sources, i, remote, to[p])
    IN  IF n > Len(Sources)
        THEN /\ shouldRelease' = [shouldRelease EXCEPT ![p] = TRUE]
             /\ err' = [err EXCEPT ![p] = NilErr]
             /\ pc' = [pc EXCEPT ![p] = "defer"]
             /\ UNCHANGED idx
        ELSE /\ idx' = [idx EXCEPT ![p] = n]
             /\ pc' = [pc EXCEPT ![p] = "up"]
             /\ UNCHANGED <<shouldRelease, err>>

UpVersion(p) ==
    /\ At(p, "version") /\ op[p] = "Up"
    /\ \E fault \in BOOLEAN :
        LET r == IF fault THEN [v |-> 0, err |-> "fault"] ELSE Sqlite3Version(token[p], tables, versions)
        IN  /\ trace' = Log(p, "version", r.v, r.err)
            /\ remoteVersion' = [remoteVersion EXCEPT ![p] = r.v]
            /\ IF r.err # "nil" /\ ~ErrorsIs(NewErr(r.err), "ErrInitialVersion")
               THEN /\ Fail(p, Wrap("failed to get version store state", NewErr(r.err)))
                    /\ UNCHANGED <<shouldRelease, idx>>
               ELSE IF ToApply(Sources, r.v, to[p]) = <<>>
               THEN /\ err' = [err EXCEPT ![p] = NilErr]
                    /\ pc' = [pc EXCEPT ![p] = "defer"]
                    /\ UNCHANGED <<shouldRelease, idx>>
               ELSE /\ shouldRelease' = [shouldRelease EXCEPT ![p] = Gate(hold[p])]
                    /\ idx' = [idx EXCEPT ![p] = NextIdx(Sources, 1, r.v, to[p])]
                    /\ pc' = [pc EXCEPT ![p] = "up"]
                    /\ err' = [err EXCEPT ![p] = NilErr]
    /\ UNCHANGED <<Sources, store, args, held, prior, base>>
    /\ UNCHANGED <<api, token, absent>>

UpAct(p) ==
    /\ At(p, "up")
    /\ \E m \in UnitsAt(Sources[idx[p]]) :
        LET r == Message(MigrationUp(m, token[p], "db").err)
        IN  /\ trace' = Log(p, "up", Sources[idx[p]], r)
            /\ IF r # "nil"
               THEN Fail(p, Wrap("failed to apply migration", NewErr(r)))
               ELSE /\ pc' = [pc EXCEPT ![p] = "insert"]
                    /\ UNCHANGED err
    /\ UNCHANGED <<Sources, store, args, shouldRelease, remoteVersion, idx, held, prior, base>>
    /\ UNCHANGED <<api, token, absent>>

UpInsert(p) ==
    /\ At(p, "insert")
    /\ \E fault \in BOOLEAN :
        LET v == Sources[idx[p]]
            r == IF fault THEN StoreFault(versions, v) ELSE Sqlite3Insert(token[p], tables, versions, v)
        IN  /\ versions' = r.versions
            /\ trace' = Log(p, "insert", v, r.err)
            /\ IF r.err # "nil"
               THEN /\ Fail(p, Wrap("failed to insert migration in version store", NewErr(r.err)))
                    /\ UNCHANGED <<shouldRelease, idx>>
               ELSE UpLoop(p, idx[p] + 1, remoteVersion[p])
    /\ UNCHANGED <<Sources, locked, args, remoteVersion, held, prior, base>>
    /\ UNCHANGED <<api, token, absent>>

\* ---- Down
\* Head of the revert loop with the version just read: break, fail on a
\* version the list does not have, or go on to that unit's down action.
DownLoop(p, remote) ==
    LET f == BinarySearchFunc(Sources, remote)
    IN  IF AtTarget(remote, to[p])
        THEN /\ shouldRelease' = [shouldRelease EXCEPT ![p] = TRUE]
             /\ err' = [err EXCEPT ![p] = NilErr]
             /\ pc' = [pc EXCEPT ![p] = "defer"]
             /\ UNCHANGED idx
        ELSE IF ~f.ok
        THEN /\ Fail(p, NewErr("missing remote version migration"))
             /\ shouldRelease' = [shouldRelease EXCEPT ![p] = Gate(hold[p])]
             /\ UNCHANGED idx
        ELSE /\ idx' = [idx EXCEPT ![p] = f.idx]
             /\ pc' = [pc EXCEPT ![p] = "down"]
             /\ shouldRelease' = [shouldRelease EXCEPT ![p] = Gate(hold[p])]
             /\ err' = [err EXCEPT ![p] = NilErr]

\* Both version reads of Down: before the loop and at the end of each pass.
DownVersionRead(p) ==
    \E fault \in BOOLEAN :
        LET r == IF fault THEN [v |-> 0, err |-> "fault"] ELSE Sqlite3Version(token[p], tables, versions)
        IN  /\ trace' = Log(p, "version", r.v, r.err)
            /\ remoteVersion' = [remoteVersion EXCEPT ![p] = r.v]
            /\ IF r.err # "nil"
               THEN IF ErrorsIs(NewErr(r.err), "ErrInitialVersion")
                    THEN /\ err' = [err EXCEPT ![p] = NilErr]
                         /\ pc' = [pc EXCEPT ![p] = "defer"]
                         /\ UNCHANGED <<shouldRelease, idx>>
                    ELSE /\ Fail(p, Wrap("failed to get version store state", NewErr(r.err)))
                         /\ UNCHANGED <<shouldRelease, idx>>
               ELSE DownLoop(p, r.v)

DownVersion(p) ==
    /\ At(p, "version") /\ op[p] = "Down"
    /\ DownVersionRead(p)
    /\ UNCHANGED <<Sources, store, args, held, prior, base>>
    /\ UNCHANGED <<api, token, absent>>

DownAct(p) ==
    /\ At(p, "down")
    /\ \E m \in UnitsAt(Sources[idx[p]]) :
        LET r == Message(MigrationDown(m, token[p], "db").err)
        IN  /\ trace' = Log(p, "down", Sources[idx[p]], r)
            /\ IF r # "nil"
               THEN Fail(p, Wrap("failed to revert migration", NewErr(r)))
               ELSE /\ pc' = [pc EXCEPT ![p] = "remove"]
                    /\ UNCHANGED err
    /\ UNCHANGED <<Sources, store, args, shouldRelease, remoteVersion, idx, held, prior, base>>
    /\ UNCHANGED <<api, token, absent>>

DownRemove(p) ==
    /\ At(p, "remove")
    /\ \E fault \in BOOLEAN :
        LET v == Sources[idx[p]]
            r == IF fault THEN StoreFault(versions, v) ELSE Sqlite3Remove(token[p], tables, versions, v)
        IN  /\ versions' = r.versions
            /\ trace' = Log(p, "remove", v, r.err)
            /\ IF r.err # "nil"
               THEN Fail(p, Wrap("failed to delete migration from version store", NewErr(r.err)))
               ELSE /\ pc' = [pc EXCEPT ![p] = "reread"]
                    /\ UNCHANGED err
    /\ UNCHANGED <<Sources, locked, args, shouldRelease, remoteVersion, idx, held, prior, base>>
    /\ UNCHANGED <<api, token, absent>>

DownReread(p) ==
    /\ At(p, "reread")
    /\ DownVersionRead(p)
    /\ UNCHANGED <<Sources, store, args, held, prior, base>>
    /\ UNCHANGED <<api, token, absent>>

\* ---- return
\* The deferred function: release unless shouldRelease was cleared, joining a
\* release error to the result.
Deferred(p) ==
    /\ At(p, "defer")
    /\ IF shouldRelease[p]
       THEN \E fault \in BOOLEAN :
            LET r == IF fault THEN [err |-> "fault", locked |-> locked]
                              ELSE Sqlite3Release(token[p], tables, locked)
            IN  /\ locked' = r.locked
                /\ trace' = Log(p, "release", -1, r.err)
                /\ IF r.err # "nil"
                   THEN /\ err' = [err EXCEPT ![p] =
                               Join(@, Wrap("failed to release version store lock", NewErr(r.err)))]
                        /\ UNCHANGED held
                   ELSE /\ held' = [held EXCEPT ![p] = FALSE]
                        /\ UNCHANGED err
       ELSE UNCHANGED <<locked, trace, err, held>>
    /\ pc' = [pc EXCEPT ![p] = "done"]
    /\ UNCHANGED <<Sources, versions, args, shouldRelease, remoteVersion, idx, prior, base>>
    /\ UNCHANGED <<api, token, absent>>

\* The caller takes the result; the invocation's locals are gone.
Return(p) ==
    /\ pc[p] = "done"
    /\ pc' = [pc EXCEPT ![p] = "idle"]
    /\ op' = [op EXCEPT ![p] = "Up"]
    /\ to' = [to EXCEPT ![p] = -1]
    /\ hold' = [hold EXCEPT ![p] = FALSE]
    /\ shouldRelease' = [shouldRelease EXCEPT ![p] = TRUE]
    /\ remoteVersion' = [remoteVersion EXCEPT ![p] = -1]
    /\ idx' = [idx EXCEPT ![p] = 1]
    /\ err' = [err EXCEPT ![p] = NilErr]
    /\ held' = [held EXCEPT ![p] = FALSE]
    /\ trace' = [trace EXCEPT ![p] = <<>>]
    /\ prior' = [prior EXCEPT ![p] = NoPrior]
    /\ base' = [base EXCEPT ![p] = {}]
    /\ UNCHANGED <<Sources, store>>
    /\ token' = [token EXCEPT ![p] = "live"]
    /\ UNCHANGED <<api, absent>>

\* The operator clears a lock that no running invocation owns.
OperatorRelease ==
    /\ locked
    /\ \A p \in Procs : ~held[p] /\ pc[p] # "done"
    /\ locked' = StoreRelease(locked).locked
    /\ UNCHANGED <<Sources, versions, pc, args, shouldRelease, remoteVersion,
                   idx, err, held, trace, prior, base>>
    /\ UNCHANGED <<api, token, absent>>

Step(p) ==
    \/ Start(p)
    \/ StoreInit(p)
    \/ Lock(p)
    \/ UpVersion(p)
    \/ UpAct(p)
    \/ UpInsert(p)
    \/ DownVersion(p)
    \/ DownAct(p)
    \/ DownRemove(p)
    \/ DownReread(p)
    \/ Deferred(p)
    \/ Return(p)

Next ==
    \/ \E p \in SeqProcs : Step(p)
    \/ \E p \in SeqProcs : Again(p)
    \/ OperatorRelease

Spec == Init /\ [][Next]_vars

\* Two invocations at once on a store that holds versions of a valid list.
ConcInit ==
    /\ Init
    /\ check(Sources) = "nil"
    /\ Len(Sources) <= ConcLen
    /\ versions \subseteq Range(Sources)

ConcNext ==
    \/ \E p \in Procs : Step(p)
    \/ OperatorRelease

ConcSpec == ConcInit /\ [][ConcNext]_vars

\* ---------------------------------------------------------------- scenarios
\* Everything but the list, the applied versions and the units' actions, as
\* it is before the first invocation.
Idle ==
    /\ locked = FALSE
    /\ pc = [p \in Procs |-> "idle"]
    /\ op = [p \in Procs |-> "Up"]
    /\ to = [p \in Procs |-> -1]
    /\ hold = [p \in Procs |-> FALSE]
    /\ shouldRelease = [p \in Procs |-> TRUE]
    /\ remoteVersion = [p \in Procs |-> -1]
    /\ idx = [p \in Procs |-> 1]
    /\ err = [p \in Procs |-> NilErr]
    /\ held = [p \in Procs |-> FALSE]
    /\ trace = [p \in Procs |-> <<>>]
    /\ prior = [p \in Procs |-> NoPrior]
    /\ base = [p \in Procs |-> {}]
    /\ tables = Tables
    /\ calls = <<>>
    /\ token = [p \in Procs |-> "live"]

ValidLists == {src \in SourceLists : check(src) = "nil"}

\* The caller cancels the context of a running invocation.
Cancel(p) ==
    /\ pc[p] \notin {"idle", "done"}
    /\ \A q \in Others(p) : pc[q] # "done"
    /\ token[p] = "live"
    /\ token' = [token EXCEPT ![p] = "cancelled"]
    /\ UNCHANGED <<Sources, store, pc, args, shouldRelease, remoteVersion, idx,
                   err, held, trace, prior, base, api, absent>>

CancelInit ==
    /\ Sources \in ValidLists
    /\ versions \in SUBSET Range(Sources)
    /\ absent = {}
    /\ Idle

CancelNext ==
    \/ Next
    \/ \E p \in SeqProcs : Cancel(p)

CancelSpec == CancelInit /\ [][CancelNext]_vars

\* Invocations on a list in which one unit may lack one of its actions.
Actions == {"up", "down"}

AbsentInit ==
    /\ Sources \in ValidLists
    /\ versions \in SUBSET Range(Sources)
    /\ absent \in {{}} \cup {{<<v, a>>} : v \in Range(Sources), a \in Actions}
    /\ Idle

AbsentSpec == AbsentInit /\ [][Next]_vars

\* Invocations on a store that starts empty, with a valid list.
FreshInit ==
    /\ Sources \in ValidLists
    /\ versions = {}
    /\ absent = {}
    /\ Idle

FreshSpec == FreshInit /\ [][Next]_vars

\* Down invocations only, each running on to its return: the driver is
\* straight-line code and every call it makes returns.
StartDown(p) ==
    /\ At(p, "idle")
    /\ \E t \in Targets, h \in BOOLEAN : Enter(p, "Down", t, h)
    /\ prior' = [q \in Procs |-> NoPrior]
    /\ UNCHANGED <<api, token, absent>>

DownNext ==
    \E p \in SeqProcs :
        \/ StartDown(p)
        \/ StoreInit(p)
        \/ Lock(p)
        \/ DownVersion(p)
        \/ DownAct(p)
        \/ DownRemove(p)
        \/ DownReread(p)
        \/ Deferred(p)
        \/ Return(p)

DownSpec == Init /\ [][DownNext]_vars /\ WF_vars(DownNext)

\* ---------------------------------------------------------------- direct calls
\* The store's operations and a unit's Up / Down called directly, outside the
\* driver, on a database that starts fresh, with the lock table only, or
\* with both tables.
drv == <<Sources, pc, op, to, hold, shouldRelease, remoteVersion, idx, err,
         held, trace, prior, base, token, absent>>

Snapshot == [versions |-> versions, locked |-> locked, tables |-> tables]

Call(o, ctx, arg, e, ret) ==
    [op |-> o, ctx |-> ctx, arg |-> arg, err |-> e, ret |-> ret, pre |-> Snapshot]

Remember(c) == IF calls = <<>> THEN <<c>> ELSE <<calls[Len(calls)], c>>

DirectInit ==
    /\ Sources = <<>>
    /\ versions = {}
    /\ locked = FALSE
    /\ pc = [p \in Procs |-> "idle"]
    /\ op = [p \in Procs |-> "Up"]
    /\ to = [p \in Procs |-> -1]
    /\ hold = [p \in Procs |-> FALSE]
    /\ shouldRelease = [p \in Procs |-> TRUE]
    /\ remoteVersion = [p \in Procs |-> -1]
    /\ idx = [p \in Procs |-> 1]
    /\ err = [p \in Procs |-> NilErr]
    /\ held = [p \in Procs |-> FALSE]
    /\ trace = [p \in Procs |-> <<>>]
    /\ prior = [p \in Procs |-> NoPrior]
    /\ base = [p \in Procs |-> {}]
    /\ tables \in {{}, {"schema_lock"}, Tables}
    /\ calls = <<>>
    /\ token = [p \in Procs |-> "live"]
    /\ absent = {}

CallInit(ctx, fault) ==
    LET r == Sqlite3Init(ctx, tables, fault)
    IN  /\ tables' = r.tables
        /\ calls' = Remember(Call("init", ctx, fault, r.err, 0))
        /\ UNCHANGED <<versions, locked, drv>>

CallLock(ctx) ==
    LET r == Sqlite3Lock(ctx, tables, locked)
    IN  /\ locked' = r.locked
        /\ calls' = Remember(Call("lock", ctx, -1, ToErr(r.err), 0))
        /\ UNCHANGED <<versions, tables, drv>>

CallRelease(ctx) ==
    LET r == Sqlite3Release(ctx, tables, locked)
    IN  /\ locked' = r.locked
        /\ calls' = Remember(Call("release", ctx, -1, ToErr(r.err), 0))
        /\ UNCHANGED <<versions, tables, drv>>

CallVersion(ctx) ==
    LET r == Sqlite3Version(ctx, tables, versions)
    IN  /\ calls' = Remember(Call("version", ctx, -1, ToErr(r.err), r.v))
        /\ UNCHANGED <<versions, locked, tables, drv>>

CallInsert(ctx, v) ==
    LET r == Sqlite3Insert(ctx, tables, versions, v)
    IN  /\ versions' = r.versions
        /\ calls' = Remember(Call("insert", ctx, v, ToErr(r.err), 0))
        /\ UNCHANGED <<locked, tables, drv>>

CallRemove(ctx, v) ==
    LET r == Sqlite3Remove(ctx, tables, versions, v)
    IN  /\ versions' = r.versions
        /\ calls' = Remember(Call("remove", ctx, v, ToErr(r.err), 0))
        /\ UNCHANGED <<locked, tables, drv>>

StoreNext ==
    \/ \E ctx \in Contexts, fault \in InitFaults : CallInit(ctx, fault)
    \/ \E ctx \in Contexts : CallLock(ctx)
    \/ \E ctx \in Contexts : CallRelease(ctx)
    \/ \E ctx \in Contexts : CallVersion(ctx)
    \/ \E ctx \in Contexts, v \in StoreVersions : CallInsert(ctx, v)
    \/ \E ctx \in Contexts, v \in StoreVersions : CallRemove(ctx, v)

StoreSpec == DirectInit /\ [][StoreNext]_vars

CallUp(m, ctx, db) ==
    LET r == MigrationUp(m, ctx, db)
    IN  /\ calls' = <<Call("Up", ctx, <<m, db>>, r.err, r.invoked)>>
        /\ UNCHANGED <<versions, locked, tables, drv>>

CallDown(m, ctx, db) ==
    LET r == MigrationDown(m, ctx, db)
    IN  /\ calls' = <<Call("Down", ctx, <<m, db>>, r.err, r.invoked)>>
        /\ UNCHANGED <<versions, locked, tables, drv>>

UnitNext ==
    \/ \E m \in Units, ctx \in Contexts, db \in DBs : CallUp(m, ctx, db)
    \/ \E m \in Units, ctx \in Contexts, db \in DBs : CallDown(m, ctx, db)

UnitSpec == DirectInit /\ [][UnitNext]_vars

\* ================================================================ claims
Done(p) == pc[p] = "done"
Succeeded(p) == Done(p) /\ err[p] = NilErr
Failed(p) == Done(p) /\ err[p] # NilErr

Events(p, kinds) == SelectSeq(trace[p], LAMBDA e : e.k \in kinds)
Called(p, k) == Events(p, {k}) # <<>>
Acquired(p) == \E i \in 1 .. Len(trace[p]) : trace[p][i].k = "lock" /\ trace[p][i].r = "nil"

\* The call at which the invocation failed: its last call other than release.
Calls(p) == SelectSeq(trace[p], LAMBDA e : e.k # "release")
LastCall(p) == Calls(p)[Len(Calls(p))]
FailedAt(p, kinds) ==
    /\ Failed(p)
    /\ Calls(p) # <<>>
    /\ LastCall(p).k \in kinds
    /\ LastCall(p).r \notin {"nil", "ErrInitialVersion"}

\* Failure while executing the plan: a failed action, insert or remove, a
\* failed re-read of the version, or no unit for the store's version.
FailedInExecution(p) ==
    \/ FailedAt(p, {"up", "insert", "down", "remove"})
    \/ FailedAt(p, {"version"}) /\ Len(Events(p, {"version"})) > 1
    \/ Failed(p) /\ ErrorsIs(err[p], "missing remote version migration")

\* Failure before the plan is executed: validation, init, lock, first read.
FailedBeforeExecution(p) ==
    \/ Failed(p) /\ trace[p] = <<>>
    \/ FailedAt(p, {"init", "lock"})
    \/ FailedAt(p, {"version"}) /\ Len(Events(p, {"version"})) = 1

\* C1: every Up or Down that returns success returns with the lock released,
\* whatever HoldLockOnFailure and the target are.
C1_LockReleasedOnSuccess ==
    \A p \in Procs : Succeeded(p) => ~held[p] /\ ~locked

\* C2: with HoldLockOnFailure, a failure while the plan is executed calls no
\* release and returns with the lock held.
C2_HoldKeepsLockOnStepFailure ==
    \A p \in Procs :
        hold[p] /\ FailedInExecution(p)
            => ~Called(p, "release") /\ held[p] /\ locked

C2_Witness ==
    \E p \in Procs :
        /\ hold[p] /\ op[p] = "Down"
        /\ FailedAt(p, {"version"}) /\ Len(Events(p, {"version"})) > 1
        /\ locked

\* C3: with HoldLockOnFailure, a failure before the plan is executed does not
\* leave the lock held: the lock was never acquired, or release was called
\* (and the invocation holds nothing once that release succeeded).
C3_EarlyFailureDoesNotHold ==
    \A p \in Procs :
        hold[p] /\ FailedBeforeExecution(p)
            => \/ ~Acquired(p) /\ ~held[p]
               \/ /\ Called(p, "release")
                  /\ held[p] => ErrorsIs(err[p], "failed to release version store lock")

C3_Witness ==
    \E p \in Procs :
        /\ hold[p]
        /\ FailedAt(p, {"version"}) /\ Len(Events(p, {"version"})) = 1
        /\ Acquired(p) /\ Called(p, "release") /\ ~held[p] /\ ~locked

\* C4: with an invalid list (a negative version, a version below its
\* predecessor, a repeated version) Up and Down fail without any store call
\* or migration action.
InvalidList(src) ==
    \/ \E i \in 1 .. Len(src) : src[i] < 0
    \/ \E i \in 2 .. Len(src) : src[i] < src[i - 1]
    \/ \E i, j \in 1 .. Len(src) : i # j /\ src[i] = src[j]

C4_InvalidListTouchesNothing ==
    \A p \in Procs :
        InvalidList(Sources) /\ pc[p] # "idle"
            => /\ Failed(p)
               /\ ErrorsIs(err[p], "invalid sources")
               /\ trace[p] = <<>>
               /\ ~held[p]

C4_Witness ==
    \E p \in Procs :
        /\ Failed(p) /\ op[p] = "Down" /\ trace[p] = <<>>
        /\ \E i, j \in 1 .. Len(Sources) : i # j /\ Sources[i] = Sources[j]
        /\ \A i \in 1 .. Len(Sources) : Sources[i] >= 0
        /\ \A i \in 2 .. Len(Sources) : Sources[i] >= Sources[i - 1]

\* C5: under concurrent invocations at most one is between its lock and its
\* release; every version read, action, insert and remove is made by the one
\* invocation that holds the lock; an invocation that got ErrLocked makes no
\* call after lock.
C5_MutualExclusion ==
    /\ Cardinality({p \in Procs : held[p]}) <= 1
    /\ \A p \in Procs : held[p] => locked
    /\ \A p \in Procs :
        pc[p] \in {"version", "up", "insert", "down", "remove", "reread"}
            => held[p] /\ \A q \in Others(p) : ~held[q]
    /\ \A p \in Procs :
        Events(p, {"version", "up", "insert", "down", "remove"}) # <<>> => Acquired(p)
    /\ \A p \in Procs :
        (\E i \in 1 .. Len(trace[p]) : trace[p][i].r = "ErrLocked")
            => /\ Events(p, {"init", "lock"}) = trace[p]
               /\ Failed(p) /\ ~held[p]

C5_Witness ==
    \E p \in Procs, q \in Procs :
        /\ p # q
        /\ pc[p] = "insert" /\ held[p]
        /\ Failed(q) /\ ErrorsIs(err[q], "ErrLocked")

\* C6: when lock() fails, the returned error still matches the store's error
\* and release is never called; a lock somebody else owns stays held.
C6_LockFailure ==
    \A p \in Procs :
        FailedAt(p, {"lock"})
            => /\ ErrorsIs(err[p], LastCall(p).r)
               /\ ErrorsIs(err[p], "failed to get version store lock")
               /\ ~Called(p, "release")
               /\ ~held[p]
               /\ LastCall(p).r = "ErrLocked" => locked

C6_Witness ==
    \E p \in Procs :
        /\ FailedAt(p, {"lock"}) /\ LastCall(p).r = "ErrLocked"
        /\ ErrorsIs(err[p], "ErrLocked") /\ locked

\* The version read of Up (the first one of Down) and the plan the claims
\* derive from it: the units V with current < V <= target, in list order.
VersionRead(p) == Events(p, {"version"})[1]
Planned(p) ==
    SelectSeq(Sources, LAMBDA v : VersionRead(p).v < v /\ v <= to[p])

VersionsOf(evs) == [i \in 1 .. Len(evs) |-> evs[i].v]
IsPrefix(s, t) == Len(s) <= Len(t) /\ s = SubSeq(t, 1, Len(s))

\* up(V) then insert(V), both succeeding, for each planned V in turn.
RECURSIVE UpSteps(_)
UpSteps(plan) ==
    IF plan = <<>> THEN <<>>
    ELSE <<Event("up", Head(plan), "nil"), Event("insert", Head(plan), "nil")>>
             \o UpSteps(Tail(plan))

StepKinds == {"up", "insert", "down", "remove"}

\* C7: a successful Up(target) reads the version once and then runs, for
\* exactly the units with current < V <= target in ascending order, the up
\* action followed by insert(V), each once; while it runs, what it has done
\* is a prefix of that.
C7_UpAppliesPlannedUnitsInOrder ==
    \A p \in Procs :
        op[p] = "Up" /\ Called(p, "version") /\ pc[p] # "idle"
            => /\ Len(Events(p, {"version"})) = 1
               /\ Succeeded(p) => Events(p, StepKinds) = UpSteps(Planned(p))
               /\ err[p] = NilErr => IsPrefix(Events(p, StepKinds), UpSteps(Planned(p)))

C7_Witness ==
    \E p \in Procs :
        /\ op[p] = "Up" /\ Succeeded(p)
        /\ Len(Planned(p)) >= 2
        /\ Len(Planned(p)) < Len(Sources)
        /\ to[p] \notin Range(Sources)
        /\ Events(p, StepKinds) = UpSteps(Planned(p))

\* C8 as stated: after Up(T) succeeds, version() returns the largest unit
\* version <= T, or ErrInitialVersion if no unit qualified (taken on stores
\* that hold only versions of the list).
UnitsUpTo(t) == {v \in Range(Sources) : v <= t}

C8_Original ==
    \A p \in Procs :
        op[p] = "Up" /\ Succeeded(p) /\ versions \subseteq Range(Sources)
            => StoreVersion(versions) =
                   IF UnitsUpTo(to[p]) = {}
                   THEN [v |-> 0, err |-> "ErrInitialVersion"]
                   ELSE [v |-> Max(UnitsUpTo(to[p])), err |-> "nil"]

\* C8 amended: after Up(T) succeeds, version() returns the largest of the
\* version the store reported at the read and the versions of the units with
\* current < V <= T; it signals ErrInitialVersion when the store was empty and
\* there was no such unit.
C8_VersionAfterUp ==
    \A p \in Procs :
        op[p] = "Up" /\ Succeeded(p)
            => LET rd == VersionRead(p)
                   before == IF rd.r = "nil" THEN {rd.v} ELSE {}
                   after == before \cup Range(Planned(p))
               IN  StoreVersion(versions) =
                       IF after = {}
                       THEN [v |-> 0, err |-> "ErrInitialVersion"]
                       ELSE [v |-> Max(after), err |-> "nil"]

C8_Witness ==
    \E p \in Procs :
        /\ op[p] = "Up" /\ Succeeded(p)
        /\ VersionRead(p).r = "nil"
        /\ VersionRead(p).v > to[p]
        /\ UnitsUpTo(to[p]) # {}
        /\ StoreVersion(versions).v = VersionRead(p).v

\* C9: when Up fails at a planned unit (its up action or its insert), the
\* versions this invocation recorded are the planned versions before that
\* unit, in order; that unit's version and the later planned ones are not in
\* the store, and no later unit's action was invoked.
C9_UpFailureRecordsPrefix ==
    \A p \in Procs :
        op[p] = "Up" /\ FailedAt(p, {"up", "insert"})
            => LET plan == Planned(p)
                   v == LastCall(p).v
                   inserted == SelectSeq(Events(p, {"insert"}), LAMBDA e : e.r = "nil")
               IN  \E k \in 1 .. Len(plan) :
                       /\ plan[k] = v
                       /\ VersionsOf(inserted) = SubSeq(plan, 1, k - 1)
                       /\ VersionsOf(Events(p, {"up"})) = SubSeq(plan, 1, k)
                       /\ \A j \in 1 .. Len(plan) : plan[j] \in versions <=> j < k

C9_Witness ==
    \E p \in Procs :
        /\ op[p] = "Up" /\ FailedAt(p, {"insert"})
        /\ Len(Planned(p)) >= 2
        /\ LastCall(p).v = Planned(p)[2]
        /\ Planned(p)[1] \in versions /\ Planned(p)[2] \notin versions

\* C10: Up(T) called again right after Up(T) succeeded invokes no action,
\* calls neither insert nor remove, leaves the applied versions as they were,
\* and succeeds (it can fail only on a fault of a store call).
C10_UpIsIdempotent ==
    \A p \in Procs :
        prior[p].ran /\ prior[p].ok /\ op[p] = "Up"
            => /\ Events(p, StepKinds) = <<>>
               /\ versions = prior[p].versions
               /\ Failed(p) => \E i \in 1 .. Len(trace[p]) : trace[p][i].r = "fault"
               /\ Done(p) => ~held[p] \/ Failed(p)

C10_Witness ==
    \E p \in Procs :
        /\ prior[p].ran /\ prior[p].ok /\ op[p] = "Up" /\ Succeeded(p)
        /\ to[p] \in versions /\ to[p] \in Range(Sources)
        /\ Len(Sources) >= 2
        /\ Called(p, "release")

\* The versions this invocation removed / inserted with success.
Removed(p) == {e.v : e \in {x \in Range(trace[p]) : x.k = "remove" /\ x.r = "nil"}}
Inserted(p) == {e.v : e \in {x \in Range(trace[p]) : x.k = "insert" /\ x.r = "nil"}}

\* Down's calls from its first version read on.
DownCalls(p) == SelectSeq(trace[p], LAMBDA e : e.k \in {"version", "down", "remove"})

\* C11: Down reverts in strictly decreasing version order: each pass takes
\* the unit whose version the store reported last, calls its down action,
\* then remove of that version, then reads the version again, and the next
\* pass goes by the value read; only versions the store held, above the
\* target, are reverted.
C11_DownFollowsTheStore ==
    \A p \in Procs :
        op[p] = "Down" /\ pc[p] # "idle"
            => LET c == DownCalls(p)
               IN  \A i \in 1 .. Len(c) :
                     /\ i = 1 => c[i].k = "version"
                     /\ c[i].k = "down" =>
                          /\ c[i - 1].k = "version" /\ c[i - 1].r = "nil"
                          /\ c[i - 1].v = c[i].v
                          /\ c[i].v \in base[p] /\ c[i].v > to[p]
                          /\ c[i].v \in Range(Sources)
                     /\ c[i].k = "remove" =>
                          /\ c[i - 1].k = "down" /\ c[i - 1].r = "nil"
                          /\ c[i - 1].v = c[i].v
                     /\ (c[i].k = "version" /\ i > 1) =>
                          /\ c[i - 1].k = "remove" /\ c[i - 1].r = "nil"
                          /\ c[i].r = "nil" => c[i].v < c[i - 1].v
                     /\ (c[i].k = "version" /\ c[i].r = "nil") => c[i].v = Max(base[p] \ {c[j].v : j \in {k \in 1 .. i : c[k].k = "remove" /\ c[k].r = "nil"}})

C11_Witness ==
    \E p \in Procs :
        /\ op[p] = "Down" /\ Succeeded(p)
        /\ Len(Events(p, {"down"})) = 2
        /\ Events(p, {"down"})[1].v > Events(p, {"down"})[2].v
        /\ Len(Sources) = 3
        /\ \E v \in Range(Sources) : v > to[p] /\ v \notin base[p]

\* C12: after Down(T) succeeds with T # -1, version() returns a value <= T.
C12_DownReachesTarget ==
    \A p \in Procs :
        op[p] = "Down" /\ Succeeded(p) /\ to[p] # -1
            => StoreVersion(versions).v <= to[p]

C12_Witness ==
    \E p \in Procs :
        /\ op[p] = "Down" /\ Succeeded(p) /\ to[p] # -1
        /\ Removed(p) # {}
        /\ StoreVersion(versions) = [v |-> to[p], err |-> "nil"]

\* C13: after Down(-1) succeeds on a store that held a version, no version
\* is applied, version() signals ErrInitialVersion, and the down action of
\* every version the store held ran exactly once, from highest to lowest.
RECURSIVE Descending(_)
Descending(S) ==
    IF S = {} THEN <<>> ELSE <<Max(S)>> \o Descending(S \ {Max(S)})

C13_DownToEmpty ==
    \A p \in Procs :
        op[p] = "Down" /\ Succeeded(p) /\ to[p] = -1 /\ base[p] # {}
            => /\ versions = {}
               /\ StoreVersion(versions).err = "ErrInitialVersion"
               /\ VersionsOf(Events(p, {"down"})) = Descending(base[p])

C13_Witness ==
    \E p \in Procs :
        /\ op[p] = "Down" /\ Succeeded(p) /\ to[p] = -1
        /\ Cardinality(base[p]) >= 2
        /\ versions = {}

\* C14: Down(target) with target # -1 and no unit of that version fails
\* before any store call or action, whatever the store holds; target = -1
\* is not stopped by this guard.
C14_DownMissingTarget ==
    \A p \in Procs :
        op[p] = "Down" /\ pc[p] # "idle"
            => /\ (to[p] # -1 /\ to[p] \notin Range(Sources))
                    => Failed(p) /\ trace[p] = <<>> /\ ~held[p]
               /\ (~InvalidList(Sources) /\ to[p] \notin Range(Sources) /\ to[p] # -1)
                    => ErrorsIs(err[p], "missing target version migration")
               /\ to[p] = -1 => ~ErrorsIs(err[p], "missing target version migration")
               /\ (to[p] = -1 /\ ~InvalidList(Sources)) => ~(Done(p) /\ trace[p] = <<>>)

C14_Witness ==
    \E p \in Procs :
        /\ op[p] = "Down" /\ Failed(p) /\ trace[p] = <<>>
        /\ ErrorsIs(err[p], "missing target version migration")
        /\ versions # {} /\ Max(versions) > to[p]
        /\ Sources # <<>>

\* C15: when Down reads a version above the target that no unit has, it
\* fails there: no down action or remove follows, what earlier passes
\* reverted stays reverted, and the unknown version stays in the store.
UnknownRemote(p) ==
    /\ op[p] = "Down"
    /\ DownCalls(p) # <<>>
    /\ LET e == DownCalls(p)[Len(DownCalls(p))]
       IN  e.k = "version" /\ e.r = "nil" /\ e.v > to[p] /\ e.v \notin Range(Sources)

C15_DownUnknownRemoteVersion ==
    \A p \in Procs :
        UnknownRemote(p)
            => /\ pc[p] \in {"defer", "done"}
               /\ ErrorsIs(err[p], "missing remote version migration")
               /\ versions = base[p] \ Removed(p)
               /\ LastCall(p).v \in versions
               /\ Len(Events(p, {"down"})) = Cardinality(Removed(p))

C15_Witness ==
    \E p \in Procs :
        /\ UnknownRemote(p) /\ Failed(p)
        /\ Removed(p) # {}
        /\ LastCall(p).v \in versions

\* C16: Down on a store with no applied version succeeds for every valid
\* target, invokes no down action and no remove, and releases the lock.
C16_DownOnEmptyStore ==
    \A p \in Procs :
        op[p] = "Down" /\ Acquired(p) /\ base[p] = {}
            => /\ Events(p, StepKinds) = <<>>
               /\ versions = {}
               /\ pc[p] \in {"version", "defer", "done"}
               /\ Failed(p) => \E i \in 1 .. Len(trace[p]) : trace[p][i].r = "fault"
               /\ Done(p) => Called(p, "release")
               /\ Succeeded(p) => ~held[p] /\ ~locked

C16_Witness ==
    \E p \in Procs :
        /\ op[p] = "Down" /\ Succeeded(p) /\ base[p] = {} /\ hold[p]
        /\ to[p] \in Range(Sources)
        /\ Called(p, "release") /\ ~locked

\* C17 as stated: when Up's version read signals ErrInitialVersion the
\* current version counts as -1 whatever number came with the sentinel, so
\* on an empty store Up applies every unit with -1 < V <= target, unit 0
\* included.
FromEmpty(p) == SelectSeq(Sources, LAMBDA v : -1 < v /\ v <= to[p])

C17_EmptyStoreCountsAsMinusOne ==
    \A p \in Procs :
        (/\ op[p] = "Up" /\ pc[p] # "idle" /\ Called(p, "version")
         /\ VersionRead(p).r = "ErrInitialVersion")
            => /\ err[p] = NilErr => IsPrefix(Events(p, StepKinds), UpSteps(FromEmpty(p)))
               /\ Succeeded(p) => Events(p, StepKinds) = UpSteps(FromEmpty(p))

\* C18: when the deferred release fails, Up and Down return a failure even
\* if every step succeeded; what was inserted or removed stays so and the
\* lock stays held; with a primary failure the result carries that error
\* and the release error.
ReleaseFailed(p) ==
    /\ trace[p] # <<>>
    /\ trace[p][Len(trace[p])].k = "release"
    /\ trace[p][Len(trace[p])].r # "nil"

CallFailed(p) ==
    Calls(p) # <<>> /\ LastCall(p).r \notin {"nil", "ErrInitialVersion"}

C18_ReleaseFailure ==
    \A p \in Procs :
        ReleaseFailed(p)
            => /\ Failed(p)
               /\ ErrorsIs(err[p], "failed to release version store lock")
               /\ ErrorsIs(err[p], "fault")
               /\ held[p] /\ locked
               /\ versions = (base[p] \cup Inserted(p)) \ Removed(p)
               /\ IF CallFailed(p)
                  THEN Len(err[p]) = 2 /\ ErrorsIs(<<err[p][1]>>, LastCall(p).r)
                  ELSE IF UnknownRemote(p)
                  THEN /\ Len(err[p]) = 2
                       /\ ErrorsIs(<<err[p][1]>>, "missing remote version migration")
                  ELSE Len(err[p]) = 1

C18_Witness ==
    \E p \in Procs :
        /\ ReleaseFailed(p) /\ ~CallFailed(p) /\ ~UnknownRemote(p)
        /\ op[p] = "Up" /\ Cardinality(Inserted(p)) >= 2
        /\ Inserted(p) \subseteq versions
        /\ Failed(p) /\ locked

\* C19: without HoldLockOnFailure every return that follows a successful
\* lock calls release exactly once, and once that release succeeded the lock
\* is free.
C19_DefaultPolicyReleasesOnce ==
    \A p \in Procs :
        ~hold[p] /\ Done(p) /\ Acquired(p)
            => /\ Len(Events(p, {"release"})) = 1
               /\ ~ReleaseFailed(p) => ~held[p] /\ ~locked

C19_Witness ==
    \E p \in Procs :
        /\ ~hold[p] /\ op[p] = "Down" /\ FailedAt(p, {"remove"})
        /\ Len(Events(p, {"release"})) = 1 /\ ~locked

\* C20: within one invocation the calls are ordered: validation before any
\* store call, init first, then lock, then the version read, then actions,
\* inserts and removes; release, when called, is the last call; lock and
\* release are called at most once.
C20_CallOrder ==
    \A p \in Procs :
        LET t == trace[p]
        IN  /\ t # <<>> => ~InvalidList(Sources) /\ pc[p] # "idle"
            /\ \A i \in 1 .. Len(t) :
                 /\ t[i].k = "init" <=> i = 1
                 /\ t[i].k = "lock" <=> i = 2
                 /\ i = 2 => t[1].r = "nil"
                 /\ i = 3 => t[3].k = "version" /\ t[2].r = "nil"
                 /\ t[i].k \in StepKinds => i > 3
                 /\ t[i].k = "release" => i = Len(t) /\ i > 3 /\ Done(p)
            /\ Len(Events(p, {"lock"})) <= 1
            /\ Len(Events(p, {"release"})) <= 1

C20_Witness ==
    \E p \in Procs :
        /\ op[p] = "Down" /\ Succeeded(p)
        /\ Len(trace[p]) >= 8
        /\ trace[p][Len(trace[p])].k = "release"
        /\ trace[p][3].k = "version" /\ trace[p][4].k = "down"

\* C21: check accepts a list exactly when every version is >= 0 and the
\* versions strictly increase in list order; otherwise it fails at the first
\* offending unit in list order, reporting it as negative before misordered
\* (below its predecessor) before duplicate (seen before).
Offending(src, i) ==
    \/ src[i] < 0
    \/ i > 1 /\ src[i] < src[i - 1]
    \/ \E j \in 1 .. i - 1 : src[j] = src[i]

StrictlyIncreasing(src) ==
    /\ \A i \in 1 .. Len(src) : src[i] >= 0
    /\ \A i, j \in 1 .. Len(src) : i < j => src[i] < src[j]

FirstOffence(src) ==
    LET i == CHOOSE k \in 1 .. Len(src) :
                 Offending(src, k) /\ \A j \in 1 .. k - 1 : ~Offending(src, j)
    IN  IF src[i] < 0 THEN "negative"
        ELSE IF i > 1 /\ src[i] < src[i - 1] THEN "order"
        ELSE "duplicate"

C21_CheckClassifiesFirstOffence ==
    \A p \in Procs :
        pc[p] # "idle"
            => /\ StrictlyIncreasing(Sources) <=> ~ErrorsIs(err[p], "invalid sources")
               /\ StrictlyIncreasing(Sources) <=> check(Sources) = "nil"
               /\ ~StrictlyIncreasing(Sources)
                    => /\ Failed(p)
                       /\ err[p] = Wrap("invalid sources", NewErr(FirstOffence(Sources)))

C21_Witness ==
    \E p \in Procs :
        /\ Failed(p) /\ ErrorsIs(err[p], "duplicate")
        /\ Len(Sources) = 3 /\ Sources[1] = Sources[2] /\ Sources[3] < Sources[2]

\* C22 as stated: Up calls no down action and no remove, Down calls no up
\* action and no insert; Up with a target below the store's current version
\* succeeds with the applied set unchanged, and so does Down with a target
\* at or above the store's current version (the list being valid and no
\* store call failing).
NoCallFailed(p) ==
    \A i \in 1 .. Len(trace[p]) : trace[p][i].r \in {"nil", "ErrInitialVersion"}

\* The applied set the invocation found.
Before(p) == IF Acquired(p) THEN base[p] ELSE versions

NoRevertNoApply(p) ==
    /\ op[p] = "Up" => Events(p, {"down", "remove"}) = <<>>
    /\ op[p] = "Down" => Events(p, {"up", "insert"}) = <<>>

NothingToDo(p) ==
    /\ Succeeded(p)
    /\ versions = Before(p)
    /\ Events(p, StepKinds) = <<>>

C22_Original ==
    \A p \in Procs :
        Done(p) /\ ~InvalidList(Sources) /\ NoCallFailed(p)
            => /\ NoRevertNoApply(p)
               /\ op[p] = "Up" /\ to[p] < StoreVersion(Before(p)).v => NothingToDo(p)
               /\ op[p] = "Down" /\ to[p] >= StoreVersion(Before(p)).v => NothingToDo(p)

\* C22: Up calls no down action and no remove, Down calls no up action and
\* no insert.  With a valid list and no failing store call, Up with a target
\* below the store's current version succeeds with the applied set unchanged,
\* and so does Down with a target at or above the store's current version
\* when that target is -1 or the version of a unit of the list.
C22_UpNeverRevertsDownNeverApplies ==
    \A p \in Procs :
        /\ pc[p] # "idle" => NoRevertNoApply(p)
        /\ Done(p) /\ ~InvalidList(Sources) /\ NoCallFailed(p)
            => /\ op[p] = "Up" /\ to[p] < StoreVersion(Before(p)).v => NothingToDo(p)
               /\ (/\ op[p] = "Down" /\ to[p] >= StoreVersion(Before(p)).v
                   /\ to[p] \in Range(Sources) \cup {-1})
                      => NothingToDo(p)

C22_Witness ==
    \E p \in Procs :
        /\ op[p] = "Down" /\ Succeeded(p) /\ Called(p, "release")
        /\ base[p] # {} /\ to[p] = Max(base[p])
        /\ versions = base[p]

\* C23: neither Up nor Down returns an error matching ErrInitialVersion when
\* the sentinel comes from version(): Up goes on to its plan, Down returns
\* success, also when the deferred release fails and its error is joined in.
Matches(e, target) == \E i \in 1 .. Len(e) : \E j \in 1 .. Len(e[i]) : e[i][j] = target

SentinelLast(p) == Calls(p) # <<>> /\ LastCall(p).r = "ErrInitialVersion"

C23_SentinelNeverReturned ==
    \A p \in Procs :
        /\ ~Matches(err[p], "ErrInitialVersion")
        /\ (op[p] = "Up" /\ SentinelLast(p))
              => /\ pc[p] \in {"up", "defer", "done"}
                 /\ Planned(p) # <<>> => pc[p] = "up"
                 /\ Planned(p) = <<>> /\ Done(p)
                      => err[p] = NilErr \/ (ReleaseFailed(p) /\ Len(err[p]) = 1)
        /\ (op[p] = "Down" /\ SentinelLast(p))
              => /\ pc[p] \in {"defer", "done"}
                 /\ Done(p) => err[p] = NilErr \/ (ReleaseFailed(p) /\ Len(err[p]) = 1)

C23_Witness ==
    \E p \in Procs :
        /\ op[p] = "Down" /\ SentinelLast(p) /\ Removed(p) # {}
        /\ ReleaseFailed(p) /\ Failed(p)

\* C24: a unit's Up (Down) fails with "migration <V>: missing up func"
\* ("missing down func") when that action is absent; otherwise it calls the
\* action once with the context and database handle it was given and returns
\* the action's result as it is.
UnitCall(c) ==
    LET m == c.arg[1]
        db == c.arg[2]
        f == IF c.op = "Up" THEN m.UpFunc ELSE m.DownFunc
        what == IF c.op = "Up" THEN "up" ELSE "down"
    IN  IF f = "absent"
        THEN /\ c.ret = <<>>
             /\ c.err = Missing(m.Version, what)
             /\ (m.Version = 2 /\ c.op = "Up") => c.err = NewErr("migration 2: missing up func")
             /\ (m.Version = -1 /\ c.op = "Down") => c.err = NewErr("migration -1: missing down func")
        ELSE /\ c.ret = <<(<<f, c.ctx, db>>)>>
             /\ c.err = Apply(f, c.ctx, db)

C24_UnitForwards ==
    \A i \in 1 .. Len(calls) :
        calls[i].op \in {"Up", "Down"} => UnitCall(calls[i])

C24_Witness ==
    \E i \in 1 .. Len(calls) :
        /\ calls[i].op = "Up" /\ calls[i].arg[1].UpFunc = "absent"
        /\ calls[i].arg[1].DownFunc = "ok" /\ calls[i].arg[1].Version = 2
        /\ calls[i].err = NewErr("migration 2: missing up func")

\* The store as a direct call left it, and calls the store can serve: made
\* with a live context on a database that has the table.
Post(i) == IF i = Len(calls) THEN Snapshot ELSE calls[i + 1].pre

Served(i, o, table) ==
    calls[i].op = o /\ calls[i].ctx = "live" /\ table \in calls[i].pre.tables

\* C25: lock() succeeds and takes the lock when it is free; fails with
\* exactly ErrLocked, the lock staying held, when it is held; succeeds again
\* right after a release; so a lock is never taken while one is held.
C25_StoreLock ==
    \A i \in 1 .. Len(calls) :
        Served(i, "lock", "schema_lock")
            => /\ Post(i).locked
               /\ ~calls[i].pre.locked => calls[i].err = NilErr
               /\ calls[i].pre.locked => calls[i].err = NewErr("ErrLocked")
               /\ calls[i].err = NilErr => ~calls[i].pre.locked
               /\ (i > 1 /\ Served(i - 1, "release", "schema_lock")) => calls[i].err = NilErr
               /\ Post(i).versions = calls[i].pre.versions

C25_Witness ==
    /\ Len(calls) = 2
    /\ Served(1, "lock", "schema_lock") /\ calls[1].err = NilErr
    /\ Served(2, "lock", "schema_lock") /\ calls[2].err = NewErr("ErrLocked")
    /\ locked

\* C26: release() succeeds whether or not the lock is held and leaves it
\* free; a second release in a row changes nothing more; the applied
\* versions are untouched.
C26_StoreRelease ==
    \A i \in 1 .. Len(calls) :
        Served(i, "release", "schema_lock")
            => /\ calls[i].err = NilErr
               /\ ~Post(i).locked
               /\ Post(i).versions = calls[i].pre.versions
               /\ (i > 1 /\ Served(i - 1, "release", "schema_lock"))
                     => Post(i) = calls[i].pre

C26_Witness ==
    /\ Len(calls) = 2
    /\ Served(1, "release", "schema_lock") /\ calls[1].pre.locked
    /\ Served(2, "release", "schema_lock") /\ calls[2].err = NilErr
    /\ versions # {} /\ ~locked

\* C27: version() returns the largest applied version whatever the order the
\* versions were inserted in, and fails with exactly ErrInitialVersion,
\* returning 0, when none is applied; it changes nothing.
C27_StoreVersion ==
    \A i \in 1 .. Len(calls) :
        Served(i, "version", "schema_migrations")
            => /\ Post(i) = calls[i].pre
               /\ calls[i].pre.versions # {}
                    => /\ calls[i].err = NilErr
                       /\ calls[i].ret \in calls[i].pre.versions
                       /\ \A v \in calls[i].pre.versions : v <= calls[i].ret
               /\ calls[i].pre.versions = {}
                    => calls[i].err = NewErr("ErrInitialVersion") /\ calls[i].ret = 0

C27_Witness ==
    /\ Len(calls) = 2
    /\ Served(1, "insert", "schema_migrations") /\ calls[1].err = NilErr
    /\ Cardinality(calls[1].pre.versions) >= 2
    /\ \E v \in calls[1].pre.versions : calls[1].arg < v
    /\ Served(2, "version", "schema_migrations")
    /\ calls[2].ret = Max(versions) /\ calls[2].ret > calls[1].arg

\* C28: insert(v) on a store without v succeeds, 0 included, and the next
\* version() returns the larger of v and the previous maximum; on a store
\* that has v it fails and the applied set stays as it was.
C28_StoreInsert ==
    \A i \in 1 .. Len(calls) :
        Served(i, "insert", "schema_migrations")
            => LET v == calls[i].arg
                   pre == calls[i].pre.versions
               IN  /\ Post(i).locked = calls[i].pre.locked
                   /\ v \notin pre
                        => /\ calls[i].err = NilErr
                           /\ Post(i).versions = pre \cup {v}
                           /\ (i < Len(calls) /\ Served(i + 1, "version", "schema_migrations"))
                                => /\ calls[i + 1].err = NilErr
                                   /\ calls[i + 1].ret = Max(pre \cup {v})
                   /\ v \in pre
                        => /\ calls[i].err # NilErr
                           /\ Post(i).versions = pre

C28_Witness ==
    /\ Len(calls) = 2
    /\ Served(1, "insert", "schema_migrations") /\ calls[1].arg = 0
    /\ calls[1].pre.versions = {} /\ calls[1].err = NilErr
    /\ Served(2, "version", "schema_migrations") /\ calls[2].ret = 0 /\ calls[2].err = NilErr

\* C29: after remove(v) succeeds v is not applied and every other applied
\* version still is; on a store without v, an empty one included, it
\* succeeds and changes nothing.
C29_StoreRemove ==
    \A i \in 1 .. Len(calls) :
        Served(i, "remove", "schema_migrations")
            => LET v == calls[i].arg
                   pre == calls[i].pre.versions
               IN  /\ calls[i].err = NilErr
                   /\ v \notin Post(i).versions
                   /\ \A w \in pre : w # v => w \in Post(i).versions
                   /\ Post(i).versions \subseteq pre
                   /\ v \notin pre => Post(i) = calls[i].pre
                   /\ Post(i).locked = calls[i].pre.locked

C29_Witness ==
    \E i \in 1 .. Len(calls) :
        /\ Served(i, "remove", "schema_migrations") /\ calls[i].err = NilErr
        /\ calls[i].arg \in calls[i].pre.versions
        /\ \E w \in calls[i].pre.versions : w > calls[i].arg
        /\ Post(i).versions = calls[i].pre.versions \ {calls[i].arg}
        /\ Post(i).versions # {}

\* C30 as stated: init() returns success on a fresh database, on one that
\* has the lock table only and on an initialized store; afterwards both
\* tables exist, and a repeated init() changes neither the lock nor the
\* applied versions.
InitCall(i) == calls[i].op = "init" /\ calls[i].ctx = "live" /\ calls[i].arg = "none"

C30_InitSucceeds ==
    \A i \in 1 .. Len(calls) :
        InitCall(i)
            => /\ Post(i).versions = calls[i].pre.versions
               /\ Post(i).locked = calls[i].pre.locked
               /\ Post(i).tables = Tables
               /\ calls[i].err = NilErr

\* C31: lock, release, version, insert and remove called with a context that
\* is already cancelled fail and leave the lock and the applied versions as
\* they were.
StoreOps == {"lock", "release", "version", "insert", "remove"}

C31_CancelledContext ==
    \A i \in 1 .. Len(calls) :
        calls[i].op \in StoreOps /\ calls[i].ctx = "cancelled"
            => /\ calls[i].err # NilErr
               /\ Post(i).locked = calls[i].pre.locked
               /\ Post(i).versions = calls[i].pre.versions

C31_Witness ==
    /\ Len(calls) = 2
    /\ calls[1].op = "remove" /\ calls[1].ctx = "cancelled"
    /\ calls[1].arg \in calls[1].pre.versions
    /\ calls[2].op = "release" /\ calls[2].ctx = "cancelled"
    /\ calls[2].err = NewErr("context canceled")
    /\ locked /\ calls[1].arg \in versions

\* C39: store round trip.  version() right after insert(v) of a v above
\* every applied version returns v; version() right after remove(v) of the
\* largest applied version returns the next lower one, or signals
\* ErrInitialVersion when v was the last; insert, remove and version leave
\* the lock as it was.
Answered(i) == Served(i, "version", "schema_migrations")

C39_StoreRoundTrip ==
    \A i \in 1 .. Len(calls) :
        /\ calls[i].op \in {"insert", "remove", "version"}
              => Post(i).locked = calls[i].pre.locked
        /\ (/\ i < Len(calls) /\ Answered(i + 1)
            /\ Served(i, "insert", "schema_migrations")
            /\ \A w \in calls[i].pre.versions : w < calls[i].arg)
              => calls[i + 1].err = NilErr /\ calls[i + 1].ret = calls[i].arg
        /\ (/\ i < Len(calls) /\ Answered(i + 1)
            /\ Served(i, "remove", "schema_migrations")
            /\ calls[i].arg \in calls[i].pre.versions
            /\ \A w \in calls[i].pre.versions : w <= calls[i].arg)
              => LET rest == calls[i].pre.versions \ {calls[i].arg}
                 IN  IF rest = {}
                     THEN calls[i + 1].err = NewErr("ErrInitialVersion")
                     ELSE /\ calls[i + 1].err = NilErr
                          /\ calls[i + 1].ret \in rest
                          /\ \A w \in rest : w <= calls[i + 1].ret

C39_Witness ==
    /\ Len(calls) = 2
    /\ Served(1, "remove", "schema_migrations") /\ calls[1].pre.locked
    /\ Cardinality(calls[1].pre.versions) >= 3
    /\ calls[1].arg = Max(calls[1].pre.versions)
    /\ Answered(2) /\ calls[2].ret < calls[1].arg /\ calls[2].ret \in versions
    /\ locked

\* The invocation repeats a call that failed at insert (remove) of a version.
PriorFailedAt(p, k) == prior[p].ran /\ ~prior[p].ok /\ prior[p].at.k = k

\* C32: after Up failed at insert(V), V's up action having run, V is not
\* recorded, and the same Up made again runs V's up action again, as its
\* first action, once it has the lock and has read the version.
C32_UpActionRunsAgain ==
    \A p \in Procs :
        op[p] = "Up" /\ PriorFailedAt(p, "insert")
            => LET V == prior[p].at.v
               IN  /\ V \notin prior[p].versions
                   /\ (Called(p, "version") /\ VersionRead(p).r \in {"nil", "ErrInitialVersion"})
                        => \/ pc[p] = "up" /\ Sources[idx[p]] = V /\ ~Called(p, "up")
                           \/ Called(p, "up") /\ Events(p, {"up"})[1].v = V

C32_Witness ==
    \E p \in Procs :
        /\ op[p] = "Up" /\ PriorFailedAt(p, "insert") /\ hold[p]
        /\ prior[p].versions # {}
        /\ Called(p, "up") /\ Events(p, {"up"})[1].v = prior[p].at.v
        /\ Succeeded(p) /\ prior[p].at.v \in versions

\* C33: after Down failed at remove(V), V's down action having run, V is
\* still recorded and is the version the store reports, and the same Down
\* made again runs V's down action first.
C33_DownActionRunsAgain ==
    \A p \in Procs :
        op[p] = "Down" /\ PriorFailedAt(p, "remove")
            => LET V == prior[p].at.v
               IN  /\ V \in prior[p].versions
                   /\ StoreVersion(prior[p].versions) = [v |-> V, err |-> "nil"]
                   /\ (Called(p, "version") /\ VersionRead(p).r = "nil")
                        => \/ pc[p] = "down" /\ Sources[idx[p]] = V /\ ~Called(p, "down")
                           \/ Called(p, "down") /\ Events(p, {"down"})[1].v = V

C33_Witness ==
    \E p \in Procs :
        /\ op[p] = "Down" /\ PriorFailedAt(p, "remove")
        /\ Cardinality(prior[p].versions) >= 2
        /\ Len(Events(p, {"down"})) >= 2 /\ Events(p, {"down"})[1].v = prior[p].at.v
        /\ Events(p, {"down"})[2].v < prior[p].at.v

\* C35: a failure during plan execution with HoldLockOnFailure leaves the
\* lock held with no invocation owning it; from then on every step of the
\* driver leaves the lock and the applied versions as they are and every
\* lock() fails, until the lock is released from outside the driver.
Retained == locked /\ \A p \in Procs : pc[p] \in {"idle", "init", "lock", "done"}

DriverBlocked ==
    (Retained /\ pc' # pc)
        => /\ locked' /\ versions' = versions
           /\ \A p \in Procs :
                (pc[p] = "lock" /\ pc'[p] # "lock")
                    => /\ pc'[p] = "done" /\ err'[p] # NilErr
                       /\ trace'[p][Len(trace'[p])].r \in {"ErrLocked", "fault"}
                       /\ ErrorsIs(err'[p], "failed to get version store lock")

C35_RetainedLockBlocksDriver ==
    /\ [](\A p \in Procs : hold[p] /\ FailedInExecution(p) => Retained)
    /\ [][DriverBlocked]_vars

C35_Witness ==
    \E p \in Procs :
        /\ hold[p] /\ PriorFailedAt(p, "insert")
        /\ FailedAt(p, {"lock"}) /\ LastCall(p).r = "ErrLocked"
        /\ versions = prior[p].versions /\ versions # {} /\ locked

\* C34 as stated: when the token is cancelled while an invocation holds the
\* lock, the invocation returns a failure that carries the failing step's
\* error and the release error, and the lock is still held on return.
CancelledHolding(p) == Done(p) /\ token[p] = "cancelled" /\ Acquired(p)

ReleaseErr == "failed to release version store lock"

C34_Original ==
    \A p \in Procs :
        CancelledHolding(p)
            => /\ Failed(p) /\ held[p] /\ locked
               /\ Len(err[p]) = 2
               /\ ErrorsIs(<<err[p][2]>>, ReleaseErr)

\* C34: when the token is cancelled while an invocation holds the lock, the
\* lock is still held on return under either policy.  With
\* HoldLockOnFailure=false the deferred release is called with the cancelled
\* token and fails, so the invocation returns a failure carrying the release
\* error, after the failing step's error when a step failed.
C34_CancelledWhileHolding ==
    \A p \in Procs :
        CancelledHolding(p)
            => /\ held[p] /\ locked
               /\ ~hold[p]
                    => /\ Failed(p) /\ ReleaseFailed(p)
                       /\ ErrorsIs(<<err[p][Len(err[p])]>>, ReleaseErr)
                       /\ IF CallFailed(p)
                          THEN Len(err[p]) = 2 /\ ErrorsIs(<<err[p][1]>>, LastCall(p).r)
                          ELSE IF UnknownRemote(p)
                          THEN Len(err[p]) = 2
                          ELSE Len(err[p]) = 1

C34_Witness ==
    \E p \in Procs :
        /\ CancelledHolding(p) /\ ~hold[p] /\ op[p] = "Up"
        /\ FailedAt(p, {"insert"}) /\ LastCall(p).r = "context canceled"
        /\ Inserted(p) # {}
        /\ Len(err[p]) = 2 /\ ErrorsIs(err[p], ReleaseErr) /\ locked

\* C37 as stated: on a store that started empty, with a valid list, the
\* applied versions are at all times a prefix of the list: no applied version
\* is outside the list and every unit below an applied one is applied.
C37_AppliedIsPrefix ==
    (\A p \in Procs : pc[p] \in {"idle", "done"})
        => \A v \in versions :
              /\ v \in Range(Sources)
              /\ \A u \in Range(Sources) : u < v => u \in versions

\* C38: a unit that lacks its up (down) action passes validation; Up (Down)
\* fails when it invokes that unit and not before: the planned units before
\* it are applied and recorded (reverted and removed), its own version is
\* not inserted (not removed), and the lock is kept or released as for any
\* failed step.
Lacks(p, e) == e.k \in Actions /\ <<e.v, e.k>> \in absent

MissingAt(p) == Calls(p) # <<>> /\ Lacks(p, LastCall(p))

StepPolicy(p) ==
    IF hold[p]
    THEN ~Called(p, "release") /\ held[p] /\ locked
    ELSE Called(p, "release") /\ (~ReleaseFailed(p) => ~held[p] /\ ~locked)

C38_AbsentActionFailsWhenInvoked ==
    \A p \in Procs :
        /\ pc[p] # "idle" => ~ErrorsIs(err[p], "invalid sources")
        /\ \A i \in 1 .. Len(trace[p]) :
             Lacks(p, trace[p][i])
                => /\ i = Len(Calls(p))
                   /\ trace[p][i].r = Message(Missing(trace[p][i].v, trace[p][i].k))
        /\ (\E v \in VersionDomain, a \in Actions : ErrorsIs(err[p], Message(Missing(v, a))))
                => MissingAt(p)
        /\ MissingAt(p)
             => LET V == LastCall(p).v
                    steps == Events(p, StepKinds)
                IN  /\ pc[p] \in {"defer", "done"}
                    /\ ErrorsIs(err[p], LastCall(p).r)
                    /\ op[p] = "Up"
                         => /\ steps = UpSteps(SelectSeq(Planned(p), LAMBDA u : u < V))
                                          \o <<LastCall(p)>>
                            /\ V \notin versions
                            /\ versions = base[p] \cup {u \in Range(Planned(p)) : u < V}
                    /\ op[p] = "Down"
                         => /\ V \in versions
                            /\ Removed(p) = {u \in base[p] : u > V}
                            /\ versions = base[p] \ Removed(p)
                            /\ Len(steps) = 2 * Cardinality(Removed(p)) + 1
                    /\ Done(p) => Failed(p) /\ StepPolicy(p)

C38_Witness ==
    \E p \in Procs :
        /\ op[p] = "Down" /\ MissingAt(p) /\ Failed(p) /\ hold[p]
        /\ Removed(p) # {} /\ LastCall(p).v \in versions /\ locked

\* C36: Down terminates.  The versions its reads return strictly decrease
\* from one pass of the loop to the next, it calls at most as many down
\* actions as there were applied versions above the target, and an
\* invocation that has taken the lock returns.
Reads(p) == SelectSeq(trace[p], LAMBDA e : e.k = "version" /\ e.r = "nil")

DownVariant(p) ==
    /\ \A i \in 1 .. Len(Reads(p)) - 1 : Reads(p)[i + 1].v < Reads(p)[i].v
    /\ Len(Events(p, {"down"})) <= Cardinality({v \in base[p] : v > to[p]})

C36_DownTerminates ==
    /\ [](\A p \in Procs : op[p] = "Down" => DownVariant(p))
    /\ \A p \in SeqProcs : (op[p] = "Down" /\ pc[p] = "version") ~> Done(p)

C36_Witness ==
    \E p \in Procs :
        /\ op[p] = "Down" /\ Succeeded(p) /\ to[p] = 0
        /\ Len(Events(p, {"down"})) = 2 /\ Len(Reads(p)) = 3
        /\ Cardinality({v \in base[p] : v > to[p]}) = 2

====
